---- MODULE Spec2Model ----
(***************************************************************************)
(* Model of apymongo/connection.py: the stream pool (_Pool), the           *)
(* connection's primary discovery, disconnect, dispatch and index cache.   *)
(*                                                                         *)
(* The program is callback driven and single threaded.  A handler runs to  *)
(* completion, synchronous callbacks included, so every handler is a pure  *)
(* operator from a world record (one field per program variable) to the    *)
(* world after it; an action applies one handler to the current state and  *)
(* stores the result.  A Python exception is the field exc of the world:   *)
(* once it is set the rest of the handler is skipped.                      *)
(*                                                                         *)
(* Python values: None is the string "None" where the other values are     *)
(* strings (host, port, exception names) and the empty tuple where they    *)
(* are tuples (_Pool.stream).  A port number is written as its canonical   *)
(* numeral ("27017"): the model never calculates with ports.               *)
(***************************************************************************)
EXTENDS Integers, Sequences, FiniteSets, TLC

VARIABLES
    streams,        \* _Pool.streams of Connection.__pool: the idle list
    stream,         \* _Pool.stream: NoStream or <<pid, strm>>, the checked-out slot
    pid,            \* _Pool.pid: the process identity the pool recorded
    stream_factory, \* _Pool.stream_factory
    ospid,          \* os.getpid() of the running process
    now,            \* the clock, in seconds (time.time(), datetime.utcnow())
    host,           \* Connection.__host
    port,           \* Connection.__port
    nodes,          \* Connection.__nodes
    slave_okay,     \* Connection.__slave_okay
    last_checkout,  \* Connection.__last_checkout
    index_cache,    \* Connection.__index_cache
    phase,          \* "find_master": __init__ is about to call __find_master
    ops,            \* the operations dispatched so far
    pending,        \* IOStream.connect calls that have not completed yet
    conns,          \* the connected streams, numbered in order of completion
    created,        \* number of streams the stream factory has created
    misses,         \* number of get_stream calls that found the idle list empty
    deliv,          \* streams handed to the acquirer's callback by the last step
    raised,         \* exception the last step let escape, or None
    ret,            \* value the last step's handler returned
    replaced,       \* replacement streams the staleness check of the last step asked for
    act,            \* name of the handler the last step ran
    arg             \* the document the last step's handler was given

vars == <<streams, stream, pid, stream_factory, ospid, now, host, port, nodes,
          slave_okay, last_checkout, index_cache, phase, ops, pending, conns,
          created, misses, deliv, raised, ret, replaced, act, arg>>

None == "None"
NoStream == <<>>

\* Bounds of the model.
MaxPoolStreams == 11    \* streams the factory may create under SpecPool
MaxStreams == 3         \* streams the factory may create under Spec
MaxOps == 2             \* operations dispatched under Spec
MaxPid == 2             \* process identities (one fork)
MaxTime == 2            \* seconds the clock may reach

\* _Pool.__init__: self.pool_size = 10
pool_size == 10

Last(s) == s[Len(s)]
Front(s) == SubSeq(s, 1, Len(s) - 1)
RemoveAt(s, i) == SubSeq(s, 1, i - 1) \o SubSeq(s, i + 1, Len(s))
Range(s) == {s[i] : i \in DOMAIN s}

(***************************************************************************)
(* The world of one step.  pool maps a pool object (numbered by the        *)
(* disconnects of this step: 0 is the pool the step started with) to its   *)
(* fields; cur is the object Connection.__pool refers to.  Pool objects    *)
(* other than cur are garbage at the end of the step: only closures of     *)
(* pending connects still refer to them, and those only write to them.     *)
(* env holds what the environment answers to the calls of this step.       *)
(***************************************************************************)
Calm == [sock_ok |-> TRUE, closed_raises |-> FALSE, write_err |-> "socket.error"]

World ==
    [pool |-> 0 :> [streams |-> streams, stream |-> stream, pid |-> pid,
                    stream_factory |-> stream_factory],
     cur |-> 0, ospid |-> ospid, now |-> now, host |-> host, port |-> port,
     nodes |-> nodes, slave_okay |-> slave_okay, last_checkout |-> last_checkout,
     index_cache |-> index_cache, ops |-> ops,
     pending |-> pending, conns |-> conns, created |-> created, misses |-> misses,
     deliv |-> <<>>, exc |-> None, ret |-> [t |-> "None", node |-> <<>>],
     replaced |-> 0, env |-> Calm]

Raise(w, e) == [w EXCEPT !.exc = e]

\* An operation on stream strm fails with exception e: the stream is marked
\* (bad) as one an operation has failed on.
Fail(w, strm, e) == [w EXCEPT !.exc = e, !.conns[strm].bad = TRUE]

\* _Pool.__init__
NewPool(factory, p) ==
    [streams |-> <<>>, stream |-> NoStream, pid |-> p, stream_factory |-> factory]

(***************************************************************************)
(* tornado.iostream.IOStream, as the code uses it.  A stream has one read  *)
(* slot: rd.want is "none", "header" or "body".                            *)
(***************************************************************************)
NoRead == [op |-> 0, want |-> "none", operation |-> 0, request_id |-> 0, n |-> 0]

\* IOStream(sock, io_loop)
iostream_new(w) == [w EXCEPT !.created = @ + 1]

\* IOStream.connect(address, callback): the connect completes later; an
\* address without a host is refused by socket.connect at once.
iostream_connect(w, address, callback) ==
    IF address[1] = None
    THEN Raise(w, "TypeError")
    ELSE [w EXCEPT !.pending = Append(@, [target |-> address, callback |-> callback])]

\* IOStream.close
iostream_close(w, strm) ==
    [w EXCEPT !.conns[strm].open = FALSE, !.conns[strm].rd = NoRead]

\* IOStream.write(data)
iostream_write(w, strm) ==
    IF w.conns[strm].open THEN w ELSE Fail(w, strm, w.env.write_err)

\* IOStream.read_bytes(num_bytes, callback)
iostream_read_bytes(w, strm, rd) ==
    IF w.conns[strm].rd.want # "none" THEN Fail(w, strm, "AssertionError")
    ELSE IF ~w.conns[strm].open THEN Fail(w, strm, "IOError")
    ELSE [w EXCEPT !.conns[strm].rd = rd]

(***************************************************************************)
(* Address strings and discovery documents.  A string is a sequence of     *)
(* tokens: a host name, ":" or a numeral.                                   *)
(***************************************************************************)
\* s.find(sub): the first index of sub, 0 when it is absent
Find(s, sub) ==
    IF \E i \in DOMAIN s : s[i] = sub
    THEN CHOOSE i \in DOMAIN s : s[i] = sub /\ \A j \in 1..(i - 1) : s[j] # sub
    ELSE 0

\* _partition(source, sub): (source, None) is found = FALSE
_partition(source, sub) ==
    LET i == Find(source, sub)
    IN  IF i = 0
        THEN [head |-> source, found |-> FALSE, tail |-> <<>>]
        ELSE [head |-> SubSeq(source, 1, i - 1), found |-> TRUE,
              tail |-> SubSeq(source, i + 1, Len(source))]

\* int(port), for the numerals of the model
int(numeral) == IF numeral = <<"027017">> THEN "27017" ELSE numeral[1]

\* _str_to_node(string, default_port=27017)
_str_to_node(string) ==
    LET p == _partition(string, ":")
    IN  <<p.head[1], IF p.found /\ p.tail # <<>> THEN int(p.tail) ELSE "27017">>

A == <<"a">>
B17 == <<"b", ":", "27017">>
B017 == <<"b", ":", "027017">>
C17 == <<"c", ":", "27017">>

NodeA == <<"a", "27017">>
NodeB == <<"b", "27017">>
NodeC == <<"c", "27017">>
NodeD == <<"d", "27017">>

\* A decoded document: keys are the fields it holds.
Doc(keys, ismaster, hosts, primary) ==
    [keys |-> keys, ismaster |-> ismaster, hosts |-> hosts, primary |-> primary]
NoDoc == Doc({}, FALSE, <<>>, <<>>)

\* The answers of a node to the ismaster command.
IsmasterDocs ==
    {Doc({"ismaster"} \cup k, m, <<A, B17, C17>>, B017) :
        k \in SUBSET {"hosts", "primary"}, m \in BOOLEAN}

\* Python values of __callback_master's variable primary
PyTrue == [t |-> "True", node |-> <<>>]
PyFalse == [t |-> "False", node |-> <<>>]
PyNone == [t |-> "None", node |-> <<>>]
PyNode(n) == [t |-> "node", node |-> n]

(***************************************************************************)
(* Connection                                                              *)
(***************************************************************************)
\* A variant of disconnect that forgets to unset the port.
disconnect_keeps_port(w) ==
    [w EXCEPT !.pool = @ @@ ((w.cur + 1) :> NewPool("__connect", w.ospid)),
              !.cur = @ + 1,
              !.host = None]

\* A variant of disconnect that replaces the pool and keeps the selected node.
disconnect_keeps_selection(w) ==
    [w EXCEPT !.pool = @ @@ ((w.cur + 1) :> NewPool("__connect", w.ospid)),
              !.cur = @ + 1]

\* Connection.disconnect
disconnect(w) ==
    [w EXCEPT !.pool = @ @@ ((w.cur + 1) :> NewPool("__connect", w.ospid)),
              !.cur = @ + 1,
              !.host = None,
              !.port = None]

\* Connection.__connect(callback)
__connect(w, callback) ==
    IF ~w.env.sock_ok
    THEN Raise(disconnect(w), "AutoReconnect")
    ELSE iostream_connect(iostream_new(w), <<w.host, w.port>>, callback)

\* The stream factory of the pool harness: an asynchronous factory.
harness_factory(w, callback) ==
    iostream_connect(iostream_new(w), <<"harness", None>>, callback)

\* self.stream_factory(stream_callback) of pool object g
CallFactory(w, g, callback) ==
    IF w.pool[g].stream_factory = "harness"
    THEN harness_factory(w, callback)
    ELSE __connect(w, callback)

\* The caller's callback of operation op is invoked with a result.
user_callback(w, op, result) ==
    [w EXCEPT !.ops[op].calls = @ + 1, !.ops[op].result = result]

\* Connection.__receive_message_on_stream(operation, request_id, strm, callback)
__receive_message_on_stream(w, operation, request_id, strm, op) ==
    iostream_read_bytes(w, strm, [op |-> op, want |-> "header", operation |-> operation,
                                  request_id |-> request_id, n |-> 16])

\* send_callback, the closure of Connection._send_message (lines 683-699)
send_callback(w, op, strm) ==
    LET w1 == iostream_write(w, strm)
    IN  IF w1.exc = "socket.error"
        THEN Raise(disconnect(w1), "AutoReconnect")
        ELSE IF w1.exc # None THEN w1
        ELSE LET w2 == [w1 EXCEPT !.ops[op].writes = @ + 1]
             IN  IF w2.ops[op].kind = "gle"
                 THEN IF ~w2.ops[op].has_callback
                      THEN Raise(w2, "AssertionError")
                      ELSE Raise(w2, "NameError")      \* line 697: request_d
                 ELSE IF w2.ops[op].has_callback
                      THEN user_callback(w2, op, "None")
                      ELSE w2

\* Connection.__send_and_receive(message, callback, strm)
__send_and_receive(w, op, strm) ==
    LET w1 == iostream_write(w, strm)
    IN  IF w1.exc # None THEN w1
        ELSE __receive_message_on_stream([w1 EXCEPT !.ops[op].writes = @ + 1],
                                         1, w1.ops[op].request_id, strm, op)

\* The callback Connection.__stream was given for operation op.
OpCallback(w, op, strm) ==
    IF w.ops[op].kind \in {"send", "gle"}
    THEN send_callback(w, op, strm)
    ELSE __send_and_receive(w, op, strm)

(***************************************************************************)
(* _Pool                                                                   *)
(***************************************************************************)
\* The acquirer's callback of the pool harness: it records the stream.
harness_callback(w, strm) == [w EXCEPT !.deliv = Append(@, strm)]

RECURSIVE get_stream(_, _, _), Call(_, _, _), scallback(_, _, _)

\* _Pool.get_stream(callback), on pool object g
get_stream(w, g, callback) ==
    LET p == w.ospid
        \* lines 183-186: fork detection
        w1 == IF p # w.pool[g].pid
              THEN [w EXCEPT !.pool[g].streams = <<>>, !.pool[g].pid = p]
              ELSE w
        held == w1.pool[g].stream
        \* lines 188-189: the held stream is delivered, and the code goes on
        w2 == IF held # NoStream /\ held[1] = p THEN Call(w1, callback, held[2]) ELSE w1
    IN  IF w2.exc # None THEN w2
        ELSE IF w2.pool[g].streams # <<>>
        THEN \* lines 192, 201-202
             LET w3 == [w2 EXCEPT !.pool[g].stream = <<p, Last(w2.pool[g].streams)>>,
                                  !.pool[g].streams = Front(@)]
             IN  Call(w3, callback, w3.pool[g].stream[2])
        ELSE \* lines 193-199
             CallFactory([w2 EXCEPT !.misses = @ + 1], g,
                         [k |-> "stream_callback", g |-> g, pid |-> p,
                          callback |-> callback])

\* A callback given to get_stream is [k, op]: the harness's recorder or the
\* closure scallback of Connection.__stream for operation op.
Call(w, callback, strm) ==
    IF callback.k = "harness"
    THEN harness_callback(w, strm)
    ELSE scallback(w, callback.op, strm)

\* scallback, the closure of Connection.__stream (lines 586-593).
\* IOStream._check_closed() of a closed stream answers true or raises IOError.
scallback(w, op, strm) ==
    LET t == w.now
    IN  IF t - w.last_checkout > 1 /\ ~w.conns[strm].open
        THEN IF w.env.closed_raises
             THEN Raise(w, "IOError")
             ELSE LET w1 == [disconnect(w) EXCEPT !.replaced = @ + 1]
                  IN  get_stream(w1, w1.cur, [k |-> "scallback", op |-> op])
        ELSE OpCallback([w EXCEPT !.last_checkout = t, !.deliv = Append(@, strm)],
                        op, strm)

\* Connection.__stream(callback)
__stream(w, op) == get_stream(w, w.cur, [k |-> "scallback", op |-> op])

\* stream_callback, the closure of _Pool.get_stream (lines 195-197)
stream_callback(w, c, strm) ==
    LET w1 == IF c.g \in DOMAIN w.pool
              THEN [w EXCEPT !.pool[c.g].stream = <<c.pid, strm>>]
              ELSE w
    IN  Call(w1, c.callback, strm)

\* A variant of return_stream that retains the stream while the idle list
\* holds at most pool_size streams.
return_stream_when_full(w, g) ==
    LET held == w.pool[g].stream
        w1 == IF held # NoStream /\ held[1] = w.ospid
              THEN IF Len(w.pool[g].streams) <= pool_size
                   THEN [w EXCEPT !.pool[g].streams = Append(@, held[2])]
                   ELSE iostream_close(w, held[2])
              ELSE w
    IN  [w1 EXCEPT !.pool[g].stream = NoStream]

\* A variant of return_stream that leaves the checkout slot as it is.
return_stream_keeps_slot(w, g) ==
    LET held == w.pool[g].stream
    IN  IF held # NoStream /\ held[1] = w.ospid
        THEN IF Len(w.pool[g].streams) < pool_size
             THEN [w EXCEPT !.pool[g].streams = Append(@, held[2])]
             ELSE iostream_close(w, held[2])
        ELSE w

\* _Pool.return_stream(), on pool object g
return_stream(w, g) ==
    LET held == w.pool[g].stream
        w1 == IF held # NoStream /\ held[1] = w.ospid
              THEN IF Len(w.pool[g].streams) < pool_size
                   THEN [w EXCEPT !.pool[g].streams = Append(@, held[2])]
                   ELSE iostream_close(w, held[2])
              ELSE w
    IN  [w1 EXCEPT !.pool[g].stream = NoStream]

\* Connection.end_request
end_request(w) == return_stream(w, w.cur)

(***************************************************************************)
(* Dispatch and discovery                                                  *)
(***************************************************************************)
NewOp(kind, has_callback, node) ==
    [kind |-> kind, has_callback |-> has_callback, node |-> node,
     request_id |-> 0, calls |-> 0, writes |-> 0, result |-> None]

\* An operation is dispatched: its message gets the next request id.
AddOp(w, o) == [w EXCEPT !.ops = Append(@, [o EXCEPT !.request_id = Len(w.ops) + 1])]

\* Connection._send_message(message, with_last_error, callback)
_send_message(w, op) == __stream(w, op)

\* Connection._send_message_with_response(message, callback)
_send_message_with_response(w, op) == __stream(w, op)

\* Little-endian 32-bit integers of a header: struct.unpack("<i", bytes)
\* (the top byte carries the sign)
unpack(b) ==
    b[1] + 256 * b[2] + 65536 * b[3]
    + 16777216 * (IF b[4] >= 128 THEN b[4] - 256 ELSE b[4])

\* struct.pack("<i", n), as the peer writes a header field
pack(n) ==
    <<n % 256, (n \div 256) % 256, (n \div 65536) % 256, (n \div 16777216) % 256>>

\* A variant of receive_body_on_stream that does not compare the operation.
receive_body_unchecked_operation(w, operation, request_id, strm, op, header) ==
    LET length == unpack(SubSeq(header, 1, 4))
    IN  IF request_id # unpack(SubSeq(header, 9, 12))
        THEN Fail(w, strm, "AssertionError")
        ELSE iostream_read_bytes(w, strm, [op |-> op, want |-> "body",
                                           operation |-> operation,
                                           request_id |-> request_id,
                                           n |-> length - 16])

\* receive_body_on_stream(operation, request_id, strm, callback, header)
receive_body_on_stream(w, operation, request_id, strm, op, header) ==
    LET length == unpack(SubSeq(header, 1, 4))
    IN  IF request_id # unpack(SubSeq(header, 9, 12))
        THEN Fail(w, strm, "AssertionError")
        ELSE IF operation # unpack(SubSeq(header, 13, 16))
        THEN Fail(w, strm, "AssertionError")
        ELSE iostream_read_bytes(w, strm, [op |-> op, want |-> "body",
                                           operation |-> operation,
                                           request_id |-> request_id,
                                           n |-> length - 16])

\* A variant of __add_hosts_and_get_primary that assigns the reported hosts
\* to the node set instead of merging them.
replace_hosts_and_get_primary(w, response) ==
    LET w1 == IF "hosts" \in response.keys
              THEN [w EXCEPT !.nodes = {_str_to_node(h) : h \in Range(response.hosts)}]
              ELSE w
    IN  IF "primary" \in response.keys
        THEN [w1 EXCEPT !.ret = PyNode(_str_to_node(response.primary))]
        ELSE [w1 EXCEPT !.ret = PyFalse]

\* Connection.__add_hosts_and_get_primary(response)
__add_hosts_and_get_primary(w, response) ==
    LET w1 == IF "hosts" \in response.keys
              THEN [w EXCEPT !.nodes = @ \cup {_str_to_node(h) : h \in Range(response.hosts)}]
              ELSE w
    IN  IF "primary" \in response.keys
        THEN [w1 EXCEPT !.ret = PyNode(_str_to_node(response.primary))]
        ELSE [w1 EXCEPT !.ret = PyFalse]

\* Connection.__callback_master(response)
__callback_master(w, response) ==
    LET w1 == __add_hosts_and_get_primary(w, response)
        primary0 == w1.ret
        w2 == end_request(w1)
    IN  IF "ismaster" \notin response.keys
        THEN Raise([w2 EXCEPT !.ret = PyNone], "KeyError")
        ELSE LET primary == IF response.ismaster THEN PyTrue ELSE primary0
             IN  IF primary = PyTrue \/ (w2.slave_okay /\ primary # PyNone)
                 THEN [w2 EXCEPT !.ret = PyNone]
                 ELSE Raise([w2 EXCEPT !.ret = PyNone], "AutoReconnect")

\* Connection.__try_node(node, callback)
__try_node(w, node) ==
    LET w1 == [disconnect(w) EXCEPT !.host = node[1], !.port = node[2]]
        w2 == AddOp(w1, NewOp("ismaster", TRUE, node))
    IN  _send_message_with_response(w2, Len(w2.ops))

\* Connection.__find_master, with first the node iter(self.__nodes) yields
__find_master(w, first) == __try_node(w, first)

\* The response body of operation op arrives: its callback gets the document.
\* Database.command hands the decoded answer of ismaster to __callback_master.
body_callback(w, op, doc) ==
    IF w.ops[op].kind = "ismaster"
    THEN __callback_master(w, doc)
    ELSE user_callback(w, op, "response")

(***************************************************************************)
(* Response to getLastError                                                *)
(***************************************************************************)
\* A decoded acknowledgement document: keys are the fields it holds; err
\* is None (null) or a text, code a number.
Ack(keys, err, code) == [keys |-> keys, err |-> err, code |-> code]

\* What helpers._unpack_response returns: number_returned and data[0]
Response(number_returned, error) == [number_returned |-> number_returned, error |-> error]

\* Values __check_response_to_last_error returns: the document, or an
\* exception object with its arguments (nargs of err, code).
PyDoc(error) == [t |-> "document", doc |-> error]
PyError(class, nargs, err, code) ==
    [t |-> class, nargs |-> nargs, err |-> err, code |-> code]

\* helpers._check_command_response(error, self.disconnect): a document the
\* server answered the command with (ok: 1) passes.
_check_command_response(w, error) == w

\* A variant of the classifier that tests the code before the text.
check_code_before_text(w, response) ==
    IF response.number_returned # 1 THEN Raise(w, "AssertionError")
    ELSE LET error == response.error
             w1 == _check_command_response(w, error)
         IN  IF w1.exc # None THEN w1
             ELSE IF "err" \in error.keys /\ error.err = None
             THEN [w1 EXCEPT !.ret = PyDoc(error)]
             ELSE IF "err" \notin error.keys THEN Raise(w1, "KeyError")
             ELSE IF "code" \in error.keys /\ error.code \in {11000, 11001, 12582}
             THEN [w1 EXCEPT !.ret = PyError("DuplicateKeyError", 1, error.err, 0)]
             ELSE IF error.err = "not master"
             THEN [disconnect(w1) EXCEPT !.ret = PyError("AutoReconnect", 1, "not master", 0)]
             ELSE IF "code" \in error.keys
             THEN [w1 EXCEPT !.ret = PyError("OperationFailure", 2, error.err, error.code)]
             ELSE [w1 EXCEPT !.ret = PyError("OperationFailure", 1, error.err, 0)]

\* A variant of the classifier that knows two duplicate-key codes.
check_two_duplicate_codes(w, response) ==
    IF response.number_returned # 1 THEN Raise(w, "AssertionError")
    ELSE LET error == response.error
             w1 == _check_command_response(w, error)
         IN  IF w1.exc # None THEN w1
             ELSE IF "err" \in error.keys /\ error.err = None
             THEN [w1 EXCEPT !.ret = PyDoc(error)]
             ELSE IF "err" \notin error.keys THEN Raise(w1, "KeyError")
             ELSE IF error.err = "not master"
             THEN [disconnect(w1) EXCEPT !.ret = PyError("AutoReconnect", 1, "not master", 0)]
             ELSE IF "code" \in error.keys
             THEN IF error.code \in {11000, 11001}
                  THEN [w1 EXCEPT !.ret = PyError("DuplicateKeyError", 1, error.err, 0)]
                  ELSE [w1 EXCEPT !.ret = PyError("OperationFailure", 2, error.err,
                                                  error.code)]
             ELSE [w1 EXCEPT !.ret = PyError("OperationFailure", 1, error.err, 0)]

\* Connection.__check_response_to_last_error(response)
__check_response_to_last_error(w, response) ==
    IF response.number_returned # 1 THEN Raise(w, "AssertionError")
    ELSE LET error == response.error
             w1 == _check_command_response(w, error)
         IN  IF w1.exc # None THEN w1
             \* error.get("err", 0) is None
             ELSE IF "err" \in error.keys /\ error.err = None
             THEN [w1 EXCEPT !.ret = PyDoc(error)]
             \* error["err"]
             ELSE IF "err" \notin error.keys THEN Raise(w1, "KeyError")
             ELSE IF error.err = "not master"
             THEN [disconnect(w1) EXCEPT !.ret = PyError("AutoReconnect", 1, "not master", 0)]
             ELSE IF "code" \in error.keys
             THEN IF error.code \in {11000, 11001, 12582}
                  THEN [w1 EXCEPT !.ret = PyError("DuplicateKeyError", 1, error.err, 0)]
                  ELSE [w1 EXCEPT !.ret = PyError("OperationFailure", 2, error.err,
                                                  error.code)]
             ELSE [w1 EXCEPT !.ret = PyError("OperationFailure", 1, error.err, 0)]

(***************************************************************************)
(* Index cache                                                             *)
(***************************************************************************)
Without(f, k) == [x \in DOMAIN f \ {k} |-> f[x]]

\* A variant of _cache_index for which an entry is still valid at the second
\* of its expiry.
cache_index_valid_at_expiry(w, database, collection, index, ttl) ==
    LET c == w.index_cache
        expire == ttl + w.now
    IN  IF database \notin DOMAIN c
        THEN [w EXCEPT !.index_cache = (database :> (collection :> (index :> expire))) @@ c,
                       !.ret = PyTrue]
        ELSE IF collection \notin DOMAIN c[database]
        THEN [w EXCEPT !.index_cache[database] = (collection :> (index :> expire)) @@ @,
                       !.ret = PyTrue]
        ELSE IF index \in DOMAIN c[database][collection]
                /\ w.now <= c[database][collection][index]
        THEN [w EXCEPT !.ret = PyFalse]
        ELSE [w EXCEPT !.index_cache[database][collection] = (index :> expire) @@ @,
                       !.ret = PyTrue]

\* Connection._cache_index(database, collection, index, ttl)
_cache_index(w, database, collection, index, ttl) ==
    LET c == w.index_cache
        expire == ttl + w.now
    IN  IF database \notin DOMAIN c
        THEN [w EXCEPT !.index_cache = (database :> (collection :> (index :> expire))) @@ c,
                       !.ret = PyTrue]
        ELSE IF collection \notin DOMAIN c[database]
        THEN [w EXCEPT !.index_cache[database] = (collection :> (index :> expire)) @@ @,
                       !.ret = PyTrue]
        ELSE IF index \in DOMAIN c[database][collection]
                /\ w.now < c[database][collection][index]
        THEN [w EXCEPT !.ret = PyFalse]
        ELSE [w EXCEPT !.index_cache[database][collection] = (index :> expire) @@ @,
                       !.ret = PyTrue]

\* A variant of _purge_index that purges the collection of a named index.
purge_index_with_collection(w, database_name, collection_name, index_name) ==
    LET c == w.index_cache
    IN  IF database_name \notin DOMAIN c THEN w
        ELSE IF collection_name = None
        THEN [w EXCEPT !.index_cache = Without(c, database_name)]
        ELSE IF collection_name \notin DOMAIN c[database_name] THEN w
        ELSE [w EXCEPT !.index_cache[database_name] = Without(@, collection_name)]

\* Connection._purge_index(database_name, collection_name=None, index_name=None)
_purge_index(w, database_name, collection_name, index_name) ==
    LET c == w.index_cache
    IN  IF database_name \notin DOMAIN c THEN w
        ELSE IF collection_name = None
        THEN [w EXCEPT !.index_cache = Without(c, database_name)]
        ELSE IF collection_name \notin DOMAIN c[database_name] THEN w
        ELSE IF index_name = None
        THEN [w EXCEPT !.index_cache[database_name] = Without(@, collection_name)]
        ELSE IF index_name \in DOMAIN c[database_name][collection_name]
        THEN [w EXCEPT !.index_cache[database_name][collection_name] = Without(@, index_name)]
        ELSE w

(***************************************************************************)
(* End of a step: the world becomes the next state.  Closures of pending   *)
(* connects that refer to a pool object other than Connection.__pool are   *)
(* marked -1: that object is unreachable from now on.                      *)
(***************************************************************************)
Settle(c, cur) == IF c.g = cur THEN [c EXCEPT !.g = 0] ELSE [c EXCEPT !.g = -1]

CommitTo(w, name, doc, next_phase) ==
    /\ streams' = w.pool[w.cur].streams
    /\ stream' = w.pool[w.cur].stream
    /\ pid' = w.pool[w.cur].pid
    /\ stream_factory' = w.pool[w.cur].stream_factory
    /\ ospid' = w.ospid
    /\ now' = w.now
    /\ host' = w.host
    /\ port' = w.port
    /\ nodes' = w.nodes
    /\ slave_okay' = w.slave_okay
    /\ last_checkout' = w.last_checkout
    /\ index_cache' = w.index_cache
    /\ phase' = next_phase
    /\ ops' = w.ops
    /\ pending' = [i \in DOMAIN w.pending |->
                     [w.pending[i] EXCEPT !.callback = Settle(@, w.cur)]]
    /\ conns' = w.conns
    /\ created' = w.created
    /\ misses' = w.misses
    /\ deliv' = w.deliv
    /\ raised' = w.exc
    /\ ret' = w.ret
    /\ replaced' = w.replaced
    /\ act' = name
    /\ arg' = doc

\* The end of a step of a constructed connection.
Commit(w, name, doc) == CommitTo(w, name, doc, "ready")

\* IOStream._run_callback: an exception that escapes a callback of stream
\* strm closes the stream before the event loop logs it.
RunCallback(w, strm) == IF w.exc # None THEN iostream_close(w, strm) ELSE w

Envs == [sock_ok : BOOLEAN, closed_raises : BOOLEAN,
         write_err : {"socket.error", "IOError"}]

----------------------------------------------------------------------------
(* Steps shared by the pool harness and the connection. *)

\* Connection.end_request(): pool.return_stream()
EndRequest ==
    /\ phase = "ready"
    /\ Commit(end_request(World), "return_stream", NoDoc)

\* A pending connect completes: IOStream runs the callback it was given,
\* scallback of __connect (lines 568-569), which calls stream_callback.
ConnectDone ==
    \E i \in DOMAIN pending,
       env \in IF stream_factory = "harness" THEN {Calm} ELSE Envs :
        LET c == pending[i]
            strm == Len(conns) + 1
            w1 == [World EXCEPT !.env = env,
                                !.pending = RemoveAt(@, i),
                                !.conns = Append(@, [target |-> c.target, open |-> TRUE,
                                                     rd |-> NoRead, bad |-> FALSE])]
            w2 == RunCallback(stream_callback(w1, c.callback, strm), strm)
        IN  /\ w2.created <= IF stream_factory = "harness" THEN MaxPoolStreams ELSE MaxStreams
            /\ Commit(w2, "connected", NoDoc)

\* The process forks and the model follows the child.
Fork ==
    /\ phase = "ready"
    /\ ospid < MaxPid
    /\ Commit([World EXCEPT !.ospid = @ + 1], "fork", NoDoc)

----------------------------------------------------------------------------
(* The pool harness: one pool instance, one context, an asynchronous       *)
(* factory and a callback that records what it is given.                   *)

InitPool ==
    /\ streams = <<>>
    /\ stream = NoStream
    /\ pid = 1
    /\ stream_factory = "harness"
    /\ ospid = 1
    /\ now = 0
    /\ host = None
    /\ port = None
    /\ nodes = {}
    /\ slave_okay = FALSE
    /\ last_checkout = 0
    /\ index_cache = <<>>
    /\ phase = "ready"
    /\ ops = <<>>
    /\ pending = <<>>
    /\ conns = <<>>
    /\ created = 0
    /\ misses = 0
    /\ deliv = <<>>
    /\ raised = None
    /\ ret = PyNone
    /\ replaced = 0
    /\ act = "init"
    /\ arg = NoDoc

\* pool.get_stream(callback)
PoolAcquire ==
    LET w == get_stream(World, 0, [k |-> "harness", op |-> 0])
    IN  /\ w.created <= MaxPoolStreams
        /\ Commit(w, "get_stream", NoDoc)

NextPool == PoolAcquire \/ EndRequest \/ ConnectDone \/ Fork

SpecPool == InitPool /\ [][NextPool]_vars

----------------------------------------------------------------------------
(* The connection.  Init is the state __init__ reaches at line 358; with   *)
(* _connect it then calls __find_master, the step FindMaster.              *)

InitNodes == {{NodeA}, {NodeA, NodeD}}

Init ==
    /\ streams = <<>>
    /\ stream = NoStream
    /\ pid = 1
    /\ stream_factory = "__connect"
    /\ ospid = 1
    /\ now = 0
    /\ host = None
    /\ port = None
    /\ nodes \in InitNodes
    /\ slave_okay \in BOOLEAN
    /\ last_checkout = 0
    /\ index_cache = <<>>
    /\ phase \in {"find_master", "ready"}
    /\ ops = <<>>
    /\ pending = <<>>
    /\ conns = <<>>
    /\ created = 0
    /\ misses = 0
    /\ deliv = <<>>
    /\ raised = None
    /\ ret = PyNone
    /\ replaced = 0
    /\ act = "init"
    /\ arg = NoDoc

\* __init__, line 361: self.__find_master().  A constructor that raises
\* leaves no connection behind.
FindMaster ==
    /\ phase = "find_master"
    /\ \E first \in nodes :
        LET w == __find_master(World, first)
        IN  /\ w.exc = None
            /\ Commit(w, "find_master", NoDoc)

\* connection._send_message(message, with_last_error, callback)
SendMessage ==
    /\ phase = "ready"
    /\ Len(ops) < MaxOps
    /\ \E with_last_error \in BOOLEAN, has_callback \in BOOLEAN, env \in Envs :
        LET w1 == AddOp([World EXCEPT !.env = env],
                        NewOp(IF with_last_error THEN "gle" ELSE "send",
                              has_callback, <<None, None>>))
            w2 == _send_message(w1, Len(w1.ops))
        IN  /\ w2.created <= MaxStreams
            /\ Commit(w2, "send_message", NoDoc)

\* connection._send_message_with_response(message, callback)
SendMessageWithResponse ==
    /\ phase = "ready"
    /\ Len(ops) < MaxOps
    /\ \E env \in Envs :
        LET w1 == AddOp([World EXCEPT !.env = env], NewOp("query", TRUE, <<None, None>>))
            w2 == _send_message_with_response(w1, Len(w1.ops))
        IN  /\ w2.created <= MaxStreams
            /\ Commit(w2, "send_message_with_response", NoDoc)

\* The headers a peer may send: a response of 36 bytes to any request id.
Headers ==
    {pack(36) \o pack(99) \o pack(r) \o pack(o) : r \in 1..MaxOps, o \in {1, 2}}

\* The 16 bytes of a header have arrived on stream s.
ReadHeader ==
    \E s \in DOMAIN conns, header \in Headers :
        /\ conns[s].rd.want = "header"
        /\ LET rd == conns[s].rd
               w1 == [World EXCEPT !.conns[s].rd = NoRead]
               w2 == receive_body_on_stream(w1, rd.operation, rd.request_id, s,
                                            rd.op, header)
           IN  Commit(RunCallback(w2, s), "receive_body_on_stream", NoDoc)

\* The body has arrived on stream s.
ReadBody ==
    \E s \in DOMAIN conns :
        /\ conns[s].rd.want = "body"
        /\ LET rd == conns[s].rd
               discovery == ops[rd.op].kind = "ismaster"
               w1 == [World EXCEPT !.conns[s].rd = NoRead]
           IN  \E doc \in IF discovery THEN IsmasterDocs ELSE {NoDoc} :
                   Commit(RunCallback(body_callback(w1, rd.op, doc), s),
                          IF discovery THEN "callback_master" ELSE "response", doc)

\* connection.disconnect()
Disconnect ==
    /\ phase = "ready"
    /\ Commit(disconnect(World), "disconnect", NoDoc)

\* A pending connect fails: IOStream closes the socket, no callback runs.
ConnectFail ==
    \E i \in DOMAIN pending :
        Commit([World EXCEPT !.pending = RemoveAt(@, i)], "connect_failed", NoDoc)

\* The peer closes stream s: IOStream closes it and drops its read.
PeerClose ==
    \E s \in DOMAIN conns :
        /\ conns[s].open
        /\ Commit(iostream_close(World, s), "peer_close", NoDoc)

\* A second passes.
Tick ==
    /\ phase = "ready"
    /\ now < MaxTime
    /\ Commit([World EXCEPT !.now = @ + 1], "tick", NoDoc)

Databases == {"db"}
Collections == {"coll"}
Indexes == {"idx"}
Ttls == {1}

\* connection._cache_index(database, collection, index, ttl)
CacheIndex ==
    /\ phase = "ready"
    /\ \E d \in Databases, c \in Collections, i \in Indexes, ttl \in Ttls :
        Commit(_cache_index(World, d, c, i, ttl), "cache_index", NoDoc)

\* connection._purge_index(database_name, collection_name, index_name)
PurgeIndex ==
    /\ phase = "ready"
    /\ \E d \in Databases, c \in Collections \cup {None}, i \in Indexes \cup {None} :
        /\ c = None => i = None
        /\ Commit(_purge_index(World, d, c, i), "purge_index", NoDoc)

Next ==
    \/ FindMaster
    \/ SendMessage
    \/ SendMessageWithResponse
    \/ ConnectDone
    \/ ConnectFail
    \/ ReadHeader
    \/ ReadBody
    \/ PeerClose
    \/ EndRequest
    \/ Disconnect
    \/ Tick

Spec == Init /\ [][Next]_vars

\* The connection with its index cache in use: discovery, disconnects, time
\* and the cache operations.
NextIndex ==
    \/ FindMaster
    \/ ConnectDone
    \/ ReadHeader
    \/ ReadBody
    \/ EndRequest
    \/ Disconnect
    \/ Tick
    \/ CacheIndex
    \/ PurgeIndex

SpecIndex == Init /\ [][NextIndex]_vars

----------------------------------------------------------------------------
(* The connection classifying acknowledgements: discovery and the          *)
(* classifier applied to the responses of getLastError.                    *)

ErrTexts == {None, "not master", "E11000 duplicate key"}
Codes == {11000, 11001, 12582, 10003}

\* The acknowledgement documents: err and code present or absent.
Acks ==
    {Ack({}, None, 0)}
    \cup {Ack({"err"}, e, 0) : e \in ErrTexts}
    \cup {Ack({"code"}, None, c) : c \in Codes}
    \cup {Ack({"err", "code"}, e, c) : e \in ErrTexts, c \in Codes}

\* The decoded responses: one document, or a framing of 0 or 2 documents.
AckResponses ==
    {Response(1, error) : error \in Acks}
    \cup {Response(n, Ack({"err"}, None, 0)) : n \in {0, 2}}

\* connection.__check_response_to_last_error(response)
CheckResponse ==
    /\ phase = "ready"
    /\ \E response \in AckResponses :
        Commit(__check_response_to_last_error(World, response),
               "check_response_to_last_error", response)

NextAck ==
    \/ FindMaster
    \/ ConnectDone
    \/ ReadHeader
    \/ ReadBody
    \/ EndRequest
    \/ CheckResponse

SpecAck == Init /\ [][NextAck]_vars

----------------------------------------------------------------------------
(* The frame codec on its own: a stream on which the header read of        *)
(* __receive_message_on_stream(operation, request_id, strm, callback) is   *)
(* outstanding, and the headers a peer may answer with.                    *)

RequestIds == {1, 2, 16777217, -1}
Operations == {1, 2, 257}
Lengths == {15, 16, 17, 36}

CodecHeaders ==
    {pack(l) \o pack(99) \o pack(r) \o pack(o) :
        l \in Lengths, r \in RequestIds, o \in Operations}

InitCodec ==
    /\ streams = <<>>
    /\ stream = <<1, 1>>
    /\ pid = 1
    /\ stream_factory = "__connect"
    /\ ospid = 1
    /\ now = 0
    /\ host = NodeA[1]
    /\ port = NodeA[2]
    /\ nodes = {NodeA}
    /\ slave_okay = FALSE
    /\ last_checkout = 0
    /\ index_cache = <<>>
    /\ phase = "ready"
    /\ \E operation \in Operations, request_id \in RequestIds :
        /\ ops = <<[NewOp("query", TRUE, <<None, None>>) EXCEPT
                        !.request_id = request_id, !.writes = 1]>>
        /\ conns = <<[target |-> NodeA, open |-> TRUE, bad |-> FALSE,
                      rd |-> [op |-> 1, want |-> "header", operation |-> operation,
                              request_id |-> request_id, n |-> 16]]>>
    /\ pending = <<>>
    /\ created = 1
    /\ misses = 1
    /\ deliv = <<>>
    /\ raised = None
    /\ ret = PyNone
    /\ replaced = 0
    /\ act = "init"
    /\ arg = NoDoc

\* The 16 bytes of a header have arrived on stream s.
CodecReadHeader ==
    \E s \in DOMAIN conns, header \in CodecHeaders :
        /\ conns[s].rd.want = "header"
        /\ LET rd == conns[s].rd
               w1 == [World EXCEPT !.conns[s].rd = NoRead]
               w2 == receive_body_on_stream(w1, rd.operation, rd.request_id, s,
                                            rd.op, header)
           IN  Commit(RunCallback(w2, s), "receive_body_on_stream",
                      [header |-> header])

\* The body has arrived on stream s: the caller's callback gets it.
CodecReadBody ==
    \E s \in DOMAIN conns :
        /\ conns[s].rd.want = "body"
        /\ LET rd == conns[s].rd
               w1 == [World EXCEPT !.conns[s].rd = NoRead]
           IN  Commit(RunCallback(user_callback(w1, rd.op, "response"), s),
                      "response", NoDoc)

NextCodec == CodecReadHeader \/ CodecReadBody

SpecCodec == InitCodec /\ [][NextCodec]_vars

----------------------------------------------------------------------------
(* The index cache by itself: calls over several databases, collections,   *)
(* indexes and lifetimes, and the passing of time.                         *)

CacheDatabases == {"db", "db2"}
CacheCollections == {"coll", "coll2"}
CacheIndexes == {"idx", "idx2"}
\* The triples _cache_index is called with: two indexes of one collection,
\* another collection of the database, another database.
CacheTriples ==
    {<<"db", "coll", "idx">>, <<"db", "coll", "idx2">>,
     <<"db", "coll2", "idx">>, <<"db2", "coll", "idx">>}
CacheTtls == {1, 2}

\* connection._cache_index(database, collection, index, ttl)
CacheTriple ==
    /\ phase = "ready"
    /\ \E t \in CacheTriples, ttl \in CacheTtls :
        Commit(_cache_index(World, t[1], t[2], t[3], ttl), "cache_index",
               [database |-> t[1], collection |-> t[2], index |-> t[3], ttl |-> ttl])

\* connection._purge_index(database_name, collection_name, index_name)
PurgeScope ==
    /\ phase = "ready"
    /\ \E d \in CacheDatabases, c \in CacheCollections \cup {None},
          i \in CacheIndexes \cup {None} :
        /\ c = None => i = None
        /\ Commit(_purge_index(World, d, c, i), "purge_index",
                  [database_name |-> d, collection_name |-> c, index_name |-> i])

NextCache == CacheTriple \/ PurgeScope \/ Tick

SpecCache == Init /\ [][NextCache]_vars

----------------------------------------------------------------------------
(* Construction.  The host argument is None (not given) or a list of uris; *)
(* a uri stands here as what _parse_uri returns for it: its nodes and its  *)
(* options.  A value of an option is a sequence of characters.             *)

NoOptions == [keys |-> {}, slaveok |-> <<>>]
SlaveOk(v) == [keys |-> {"slaveok"}, slaveok |-> v]
Uri(n, opts) == [nodes |-> n, options |-> opts]

Uris ==
    {Uri(<<NodeA>>, NoOptions),
     Uri(<<NodeA, NodeD>>, NoOptions),
     Uri(<<NodeA, NodeD>>, SlaveOk(<<"t", "r", "u", "e">>)),
     Uri(<<NodeA>>, SlaveOk(<<"T">>)),
     Uri(<<NodeD>>, SlaveOk(<<"f", "a", "l", "s", "e">>))}
MaxUris == 2
HostLists == UNION {[1..n -> Uris] : n \in 0..MaxUris}
HostArgs == {[given |-> FALSE, uris |-> <<>>]} \cup {[given |-> TRUE, uris |-> h] : h \in HostLists}

\* str.upper(), on the characters of the model
upper(ch) == IF ch = "t" THEN "T" ELSE IF ch = "f" THEN "F" ELSE ch

\* lines 298-301: host defaults to [Connection.HOST], which parses to one node
DefaultHost == <<Uri(<<<<"localhost", "27017">>>>, NoOptions)>>

\* lines 305-311: the loop over the uris
RECURSIVE LastOptions(_)
LastOptions(h) ==
    IF h = <<>> THEN NoOptions
    ELSE IF Last(h).options.keys # {} THEN Last(h).options
    ELSE LastOptions(Front(h))
ParsedNodes(h) == UNION {Range(h[i].nodes) : i \in DOMAIN h}

\* Connection.__init__(host, slave_okay=slave_okay), lines 298-358
__init__(w, host_arg, slave_okay_arg) ==
    LET h == IF host_arg.given THEN host_arg.uris ELSE DefaultHost
        n == ParsedNodes(h)
        options == LastOptions(h)
    IN  IF n = {} THEN Raise(w, "ConfigurationError")
        ELSE LET w1 == [w EXCEPT !.nodes = n, !.host = None, !.port = None,
                                 !.slave_okay = IF "slaveok" \in options.keys
                                                THEN upper(options.slaveok[1]) = "T"
                                                ELSE slave_okay_arg]
             IN  IF slave_okay_arg /\ Cardinality(n) > 1
                 THEN Raise(w1, "ConfigurationError")
                 ELSE [w1 EXCEPT !.pool[0] = NewPool("__connect", w.ospid),
                                 !.last_checkout = w.now,
                                 !.index_cache = <<>>]

\* Before the constructor runs there is no connection: no pool, no nodes.
InitNew ==
    /\ streams = <<>>
    /\ stream = NoStream
    /\ pid = 1
    /\ stream_factory = None
    /\ ospid = 1
    /\ now = 0
    /\ host = None
    /\ port = None
    /\ nodes = {}
    /\ slave_okay = FALSE
    /\ last_checkout = 0
    /\ index_cache = <<>>
    /\ phase = "new"
    /\ ops = <<>>
    /\ pending = <<>>
    /\ conns = <<>>
    /\ created = 0
    /\ misses = 0
    /\ deliv = <<>>
    /\ raised = None
    /\ ret = PyNone
    /\ replaced = 0
    /\ act = "init"
    /\ arg = NoDoc

\* Connection(host, slave_okay=slave_okay, _connect=_connect): __init__ and,
\* with _connect, the __find_master() of line 361.
Construct ==
    /\ phase = "new"
    /\ \E host_arg \in HostArgs, slave_okay_arg \in BOOLEAN, _connect \in BOOLEAN :
        LET doc == [host |-> host_arg, slave_okay |-> slave_okay_arg,
                    _connect |-> _connect]
            w1 == __init__(World, host_arg, slave_okay_arg)
        IN  IF w1.exc # None
            THEN CommitTo(w1, "__init__", doc, "failed")
            ELSE IF ~_connect
            THEN CommitTo(w1, "__init__", doc, "ready")
            ELSE \E first \in w1.nodes :
                    LET w2 == __find_master(w1, first)
                    IN  CommitTo(w2, "__init__", doc,
                                 IF w2.exc = None THEN "ready" ELSE "failed")

NextNew == Construct \/ ConnectDone \/ ReadHeader \/ ReadBody

SpecNew == InitNew /\ [][NextNew]_vars

----------------------------------------------------------------------------
(* Properties *)

\* The context holds a checked-out stream.
Held == stream # NoStream /\ stream[1] = ospid
Idle == Range(streams)
\* Streams that are open and not in the idle list: in use by an operation.
CheckedOut == {s \in DOMAIN conns : conns[s].open /\ s \notin Idle}
\* The streams of the pool before a step: idle ones and the checked-out one.
Pooled == Idle \cup (IF stream # NoStream THEN {stream[2]} ELSE {})
\* The node __try_node probed: the node of the ismaster operation.
Probed == (CHOOSE i \in DOMAIN ops : ops[i].kind = "ismaster")
ProbedNode == ops[Probed].node
\* The nodes a discovery response reports in its hosts field.
ReportedHosts(doc) ==
    IF "hosts" \in doc.keys THEN {_str_to_node(h) : h \in Range(doc.hosts)} ELSE {}

\* C1: an acquire issued while the context holds a checked-out stream
\* delivers that stream to the callback exactly once, opens no connection
\* through the stream factory and takes nothing from the idle list.
C1_AcquireNotReentrant ==
    [][(act' = "get_stream" /\ Held)
        => (deliv' = <<stream[2]>> /\ created' = created /\ streams' = streams)]_vars

C3_OneCheckedOut == Cardinality(CheckedOut) <= 1 /\ created <= misses

\* C4: a non-primary answer that names a primary ends discovery without a
\* failure, with the reported hosts merged into the node set and the named
\* primary selected as host and port.
C4_ReportedPrimarySelected ==
    [][(act' = "callback_master" /\ "ismaster" \in arg'.keys /\ ~arg'.ismaster
            /\ "primary" \in arg'.keys)
        => /\ raised' = None
           /\ nodes' = nodes \cup ReportedHosts(arg')
           /\ <<host', port'>> = _str_to_node(arg'.primary)]_vars

\* C5: an answer with ismaster true ends discovery without a failure and
\* with the probed node selected, whatever slave_okay is and whichever of
\* hosts and primary the answer carries.
C5_SelfPrimarySelected ==
    [][(act' = "callback_master" /\ "ismaster" \in arg'.keys /\ arg'.ismaster)
        => (raised' = None /\ <<host', port'>> = ProbedNode)]_vars

C7_NonPrimaryRejected ==
    [][(act' = "callback_master" /\ ~slave_okay /\ "ismaster" \in arg'.keys
            /\ ~arg'.ismaster)
        => /\ raised' = "AutoReconnect"
           /\ host' = None /\ port' = None
           /\ \A s \in Range(streams') : conns'[s].target # ProbedNode]_vars

\* C8: with slave reads a non-primary answer, with or without a primary
\* field, raises no failure and the probed node stays selected.
C8_SlaveAccepted ==
    [][(act' = "callback_master" /\ slave_okay /\ "ismaster" \in arg'.keys
            /\ ~arg'.ismaster)
        => (raised' = None /\ <<host', port'>> = ProbedNode)]_vars

\* C9: disconnect leaves host and port unset and the pool without an idle or
\* a checked-out stream, and leaves the node set, the index cache and the
\* options as they were.
C9_DisconnectFrame ==
    [][act' = "disconnect"
        => /\ host' = None /\ port' = None
           /\ streams' = <<>> /\ stream' = NoStream
           /\ nodes' = nodes
           /\ index_cache' = index_cache
           /\ slave_okay' = slave_okay]_vars

\* disconnect ran on a connection that knew more nodes than its seeds, had
\* an index cached and had opened a stream.
C9_Witness ==
    /\ act = "disconnect"
    /\ NodeC \in nodes
    /\ index_cache # <<>>
    /\ \E s \in DOMAIN conns : conns[s].open

\* C10: disconnect closes every stream that was idle in the pool or checked
\* out from it, so every stream is always checked out, idle or closed.
C10_DisconnectClosesSockets ==
    /\ [][act' = "disconnect" => \A s \in Pooled : ~conns'[s].open]_vars
    /\ [](\A s \in DOMAIN conns : conns[s].open => s \in Pooled)

\* Names of the steps that dispatch an operation.
SendActs == {"send_message", "send_message_with_response"}
\* Discovery has run on this connection.
Discovered == \E i \in DOMAIN ops : ops[i].kind = "ismaster"

\* C11: no connect is ever started toward an unset host/port, and an
\* operation dispatched after a disconnect either fails to connect
\* (AutoReconnect) or raises nothing, leaves a node selected and opens its
\* stream toward that node.
C11_ReResolveAfterDisconnect ==
    /\ [](\A i \in DOMAIN pending : pending[i].target[1] # None)
    /\ [][(act' \in SendActs /\ Discovered /\ host = None)
            => \/ raised' = "AutoReconnect"
               \/ /\ raised' = None
                  /\ host' # None
                  /\ Len(pending') > Len(pending)
                  /\ pending'[Len(pending')].target = <<host', port'>>]_vars

\* The step classified a response of one document d.
Classifies(d) ==
    /\ act' = "check_response_to_last_error"
    /\ arg' = Response(1, d)

\* C12: an acknowledgement whose err is 'not master' unsets host and port,
\* replaces the pool and gives an AutoReconnect outcome, whatever code the
\* document carries.
C12_NotMasterDisconnects ==
    [][\A d \in Acks :
        (Classifies(d) /\ "err" \in d.keys /\ d.err = "not master")
        => /\ host' = None /\ port' = None
           /\ streams' = <<>> /\ stream' = NoStream
           /\ raised' = None
           /\ ret' = PyError("AutoReconnect", 1, "not master", 0)]_vars

\* A 'not master' acknowledgement with a duplicate-key code was classified
\* on a connection that had a node selected and a stream in its pool.
C12_Witness ==
    /\ act = "check_response_to_last_error"
    /\ arg = Response(1, Ack({"err", "code"}, "not master", 11000))
    /\ ret = PyError("AutoReconnect", 1, "not master", 0)
    /\ host = None
    /\ \E s \in DOMAIN conns : conns[s].open

\* C13: the classifier gives every response exactly the outcome of the five
\* rules in order; a response of other than one document, or a document
\* without err, raises and returns nothing.
C13_FiveRules ==
    [][act' = "check_response_to_last_error"
        => LET d == arg'.error
           IN  IF arg'.number_returned # 1 \/ "err" \notin d.keys
               THEN raised' # None /\ ret' = PyNone
               ELSE /\ raised' = None
                    /\ ret' = IF d.err = None THEN PyDoc(d)
                              ELSE IF d.err = "not master"
                              THEN PyError("AutoReconnect", 1, "not master", 0)
                              ELSE IF "code" \in d.keys /\ d.code \in {11000, 11001, 12582}
                              THEN PyError("DuplicateKeyError", 1, d.err, 0)
                              ELSE IF "code" \in d.keys
                              THEN PyError("OperationFailure", 2, d.err, d.code)
                              ELSE PyError("OperationFailure", 1, d.err, 0)]_vars

\* A duplicate-key acknowledgement with code 12582 was classified.
C13_Witness ==
    /\ act = "check_response_to_last_error"
    /\ arg = Response(1, Ack({"err", "code"}, "E11000 duplicate key", 12582))
    /\ ret = PyError("DuplicateKeyError", 1, "E11000 duplicate key", 0)

\* The stream on which a header read is outstanding, and that read.
Reading == CHOOSE s \in DOMAIN conns : conns[s].rd.want = "header"
Expected == conns[Reading].rd

\* C14: the codec issues the body read exactly when bytes 8-11 of the header
\* are the expected request id and bytes 12-15 the expected operation code,
\* both little-endian; otherwise it raises and issues no read.
C14_HeaderAcceptedIffMatch ==
    [][act' = "receive_body_on_stream"
        => LET header == arg'.header
               match == /\ SubSeq(header, 9, 12) = pack(Expected.request_id)
                        /\ SubSeq(header, 13, 16) = pack(Expected.operation)
           IN  IF match
               THEN raised' = None /\ conns'[Reading].rd.want = "body"
               ELSE raised' = "AssertionError" /\ conns'[Reading].rd.want = "none"]_vars

\* A header that matches a request id above 2^24 and operation 257 was
\* accepted.
C14_Witness ==
    /\ act = "receive_body_on_stream"
    /\ SubSeq(arg.header, 9, 16) = <<1, 0, 0, 1, 1, 1, 0, 0>>
    /\ conns[1].rd.want = "body"
    /\ conns[1].rd.request_id = 16777217

\* C15: a write failure, a read failure or a rejected header on the acquired
\* stream surfaces as AutoReconnect, in both dispatch modes, after a full
\* disconnect: host and port unset and a new, empty pool.
C15_StreamFailureReconnects ==
    [][(\/ /\ act' \in SendActs \cup {"connected", "receive_body_on_stream"}
           /\ raised' \in {"socket.error", "IOError", "AutoReconnect"}
        \/ /\ act' \in {"send_message_with_response", "receive_body_on_stream"}
           /\ raised' = "AssertionError")
        => /\ raised' = "AutoReconnect"
           /\ host' = None /\ port' = None
           /\ streams' = <<>> /\ stream' = NoStream]_vars

\* An operation has failed on stream s, or s was released to the idle list
\* with a response still unread.
Corrupted(s) ==
    \/ conns[s].bad
    \/ s \in Idle /\ conns[s].rd.want # "none"

\* C16: a stream on which an operation has failed, or which was given up
\* with its response unread, is never handed to an operation again.
C16_NoCorruptedStreamReused ==
    [][\A s \in Range(deliv') : s \in DOMAIN conns => ~Corrupted(s)]_vars

\* C17: the request of an operation is written to a stream at most once and
\* the caller's callback is invoked at most once.
C17_NeverResends == \A i \in DOMAIN ops : ops[i].writes <= 1 /\ ops[i].calls <= 1

\* Operations whose request the step wrote to a stream.
Wrote ==
    {i \in DOMAIN ops' : ops'[i].writes > (IF i \in DOMAIN ops THEN ops[i].writes ELSE 0)}

\* C18: a stream has at most one read outstanding (its read slot), and no
\* request is written on a stream whose earlier response is still unread:
\* a step that writes a request was handed only streams that are closed
\* (the write is refused) or have no read outstanding.
C18_FifoPerStream ==
    [][Wrote # {}
        => \A s \in Range(deliv') :
            (s \in DOMAIN conns /\ conns[s].open) => conns[s].rd.want = "none"]_vars

\* The stream an acquire obtains first from the pool: the checked-out stream
\* if there is one, else the idle stream popped, else none (0).
Obtained ==
    IF stream # NoStream /\ stream[1] = ospid THEN stream[2]
    ELSE IF streams # <<>> THEN Last(streams)
    ELSE 0

\* A dispatch whose acquire meets the staleness check with a closed stream.
StaleAcquire ==
    /\ act' \in SendActs
    /\ now - last_checkout > 1
    /\ Obtained # 0
    /\ ~conns[Obtained].open

\* C19: when more than a second has passed since the last checkout and the
\* stream obtained from the pool is closed, then, unless no socket can be
\* made at all (AutoReconnect), the dispatch raises nothing, the closed
\* stream is not delivered to the operation, and a new stream is being opened
\* to the node that was selected before the check.
C19_StaleStreamReplaced ==
    [][StaleAcquire /\ host # None
        => \/ raised' = "AutoReconnect"
           \/ /\ raised' = None
              /\ Obtained \notin Range(deliv')
              /\ Len(pending') > Len(pending)
              /\ pending'[Len(pending')].target = <<host, port>>]_vars

\* C20: the staleness check is a single-shot retry: a step replaces a stale
\* stream at most once, makes at most one new stream for it, and then either
\* has delivered a stream to the operation or has raised; it does not go on
\* reopening streams.
C20_SingleShotRetry ==
    [][replaced' >= 1
        => /\ replaced' = 1
           /\ created' <= created + 1
           /\ raised' # None \/ deliv' # <<>>]_vars

\* A dispatch met a stale closed stream, replaced the pool once and failed.
C20_Witness ==
    /\ act \in SendActs
    /\ replaced = 1
    /\ raised = "TypeError"

\* C21: an acquire that sees a process identity other than the recorded one
\* drops every idle stream and records the new identity; a release of a
\* stream checked out under another identity only clears the checkout slot;
\* and a stream delivered to a callback was made under the current process
\* identity: the one delivered when its connect completes carries, in the
\* checkout slot, the identity under which it was made.
C21_ForkDetection ==
    /\ [][(act' = "get_stream" /\ pid # ospid)
            => (pid' = ospid /\ Range(streams') \cap Range(streams) = {})]_vars
    /\ [][(act' = "return_stream" /\ stream # NoStream /\ stream[1] # ospid)
            => (stream' = NoStream /\ streams' = streams /\ conns' = conns)]_vars
    /\ [][(act' = "connected" /\ deliv' # <<>>) => stream'[1] = ospid']_vars

\* The recorded expiry of a triple in cache c, or -1 when none is recorded.
Expiry(c, d, k, i) ==
    IF d \in DOMAIN c /\ k \in DOMAIN c[d] /\ i \in DOMAIN c[d][k] THEN c[d][k][i] ELSE -1
AllTriples == CacheDatabases \X CacheCollections \X CacheIndexes

\* C22: _cache_index returns true and records expiry now + ttl when the
\* triple is not recorded or its expiry is not later than now, returns false
\* and leaves the whole cache unchanged when its expiry is later than now,
\* and never changes the entry of another triple.
C22_CacheIndex ==
    [][act' = "cache_index"
        => LET a == arg'
               e == Expiry(index_cache, a.database, a.collection, a.index)
           IN  /\ IF e = -1 \/ e <= now
                  THEN /\ ret' = PyTrue
                       /\ Expiry(index_cache', a.database, a.collection, a.index)
                            = now + a.ttl
                  ELSE /\ ret' = PyFalse
                       /\ index_cache' = index_cache
               /\ \A t \in AllTriples \ {<<a.database, a.collection, a.index>>} :
                    Expiry(index_cache', t[1], t[2], t[3])
                        = Expiry(index_cache, t[1], t[2], t[3])]_vars

\* A call found its triple recorded and not expired, at a later second than
\* the start, with another index of the same collection recorded too.
C22_Witness ==
    /\ act = "cache_index"
    /\ ret = PyFalse
    /\ now > 0
    /\ Expiry(index_cache, arg.database, arg.collection, arg.index) > now
    /\ \E i \in CacheIndexes \ {arg.index} :
        Expiry(index_cache, arg.database, arg.collection, i) # -1

\* The triple is inside the scope a purge names.
InScope(t, a) ==
    /\ t[1] = a.database_name
    /\ a.collection_name # None => t[2] = a.collection_name
    /\ a.index_name # None => t[3] = a.index_name

\* C23: a purge removes exactly the entries inside the scope it names and
\* changes no other entry; and the _cache_index call that follows a purge of
\* a whole database returns true for every triple of that database.
C23_PurgeScope ==
    /\ [][act' = "purge_index"
            => \A t \in AllTriples :
                Expiry(index_cache', t[1], t[2], t[3])
                    = IF InScope(t, arg') THEN -1
                      ELSE Expiry(index_cache, t[1], t[2], t[3])]_vars
    /\ [][(act = "purge_index" /\ arg.collection_name = None
           /\ act' = "cache_index" /\ arg'.database = arg.database_name)
            => ret' = PyTrue]_vars

\* A purge of one index has left another index of the same collection, and an
\* entry of another database, recorded.
C23_Witness ==
    /\ act = "purge_index"
    /\ arg.index_name # None
    /\ Expiry(index_cache, arg.database_name, arg.collection_name, arg.index_name) = -1
    /\ \E i \in CacheIndexes \ {arg.index_name} :
        Expiry(index_cache, arg.database_name, arg.collection_name, i) > now
    /\ \E d \in CacheDatabases \ {arg.database_name} : d \in DOMAIN index_cache

\* C24: a _send_message whose request was written has, when a write-concern
\* check is requested and a callback given, started the read of one response
\* header correlated by the request's id on the stream written to; with no
\* check requested it has started no read for the operation and has invoked
\* the callback, if one was given, with no result.
C24_FireAndForget ==
    [][act' = "send_message"
        => \A i \in Wrote :
            IF ops'[i].kind = "gle"
            THEN ops'[i].has_callback
                    => \E s \in Range(deliv') :
                        /\ conns'[s].rd.op = i
                        /\ conns'[s].rd.want = "header"
                        /\ conns'[s].rd.operation = 1
                        /\ conns'[s].rd.request_id = ops'[i].request_id
            ELSE /\ \A s \in DOMAIN conns' : conns'[s].rd.op # i
                 /\ ops'[i].has_callback
                        => ops'[i].calls >= 1 /\ ops'[i].result = "None"]_vars

\* Direct slave reads are permitted by the call: by its slave_okay argument
\* or by the slaveok option in effect.
SlavePermitted(a) ==
    LET options == LastOptions(a.host.uris)
    IN  \/ a.slave_okay
        \/ "slaveok" \in options.keys /\ upper(options.slaveok[1]) = "T"

\* C25: a construction that is given an empty list of nodes, or that permits
\* direct slave reads together with more than one node, raises
\* ConfigurationError, and has then made no pool, opened no stream and sent
\* no probe.
C25_MalformedConstruction ==
    [][(/\ act' = "__init__"
        /\ arg'.host.given
        /\ \/ ParsedNodes(arg'.host.uris) = {}
           \/ SlavePermitted(arg') /\ Cardinality(ParsedNodes(arg'.host.uris)) > 1)
        => /\ raised' = "ConfigurationError"
           /\ stream_factory' = None
           /\ created' = 0 /\ pending' = <<>> /\ ops' = <<>>]_vars

\* C26: for a header the codec accepts, the body read it issues asks for
\* exactly the total length of bytes 0-3 (little-endian) less 16 bytes, and
\* a header that declares a total length below 16 leads to no body read: the
\* byte count asked for is never negative.
C26_BodyLength ==
    [][(/\ act' = "receive_body_on_stream"
        /\ SubSeq(arg'.header, 9, 12) = pack(Expected.request_id)
        /\ SubSeq(arg'.header, 13, 16) = pack(Expected.operation))
        => LET total == unpack(SubSeq(arg'.header, 1, 4))
           IN  IF total >= 16
               THEN /\ conns'[Reading].rd.want = "body"
                    /\ conns'[Reading].rd.n = total - 16
               ELSE conns'[Reading].rd.want # "body"]_vars

\* C27: over every sequence of acquires, releases, connect completions and
\* forks on one pool, no stream is twice in the idle list, no stream is at
\* once idle and in the checkout slot, and a release with no stream checked
\* out leaves the idle list as it was and closes nothing.
C27_PoolBookkeeping ==
    /\ [](\A i, j \in DOMAIN streams : streams[i] = streams[j] => i = j)
    /\ [](stream # NoStream => stream[2] \notin Idle)
    /\ [][(act' = "return_stream" /\ stream = NoStream)
            => (streams' = streams /\ conns' = conns /\ stream' = NoStream)]_vars

\* After a fork was detected the pool has two idle streams again and a
\* release has just emptied the checkout slot.
C27_Witness ==
    /\ act = "return_stream"
    /\ stream = NoStream
    /\ ospid = 2 /\ pid = 2
    /\ Len(streams) >= 2

====
